---- MODULE Spec2Model ----
(***************************************************************************)
(* BcBsAlIntegration (src/bcbsal_integration.py): the session workflow     *)
(* driver, the response classifier, the form error scanner and the         *)
(* benefit table parser, as a state machine over one integration instance. *)
(* An action is the code that runs between two awaits of a run: it takes   *)
(* the response of the outstanding request, runs the handler's code up to  *)
(* the next request (or to the return / the raise) and issues it.          *)
(***************************************************************************)
EXTENDS Integers, Sequences, FiniteSets, TLC

----------------------------------------------------------------------------
(* Values *)

\* Python None where a string is expected (dict.get / Tag.get without default).
None == "<None>"
\* select_one(...) found no element.
Absent == "<absent>"

\* f'{v}' of a string or None.
Fmt(v) == IF v = None THEN "None" ELSE v

\* Decoded JSON values and returned bodies are tagged, so that values of
\* different Python types are never compared as one type.
JNull == [t |-> "null"]
JStr(s) == [t |-> "str", v |-> s]
JList(l) == [t |-> "list", v |-> l]
JDict(k) == [t |-> "dict", v |-> k]
NoJson == [t |-> "nojson"]
TextData(page) == [t |-> "text", v |-> page]

\* The result of a call: a value, or a raised exception.
Ok(v) == [ok |-> TRUE, val |-> v]
Raise(e) == [ok |-> FALSE, err |-> e]

EmptyDict == [x \in {} |-> x]
Put(d, k, v) == [x \in (DOMAIN d) \cup {k} |-> IF x = k THEN v ELSE d[x]]

\* str.strip() on the texts the pages of the model contain.
Strip(s) ==
  CASE s = " " -> ""
    [] s = " Invalid DOB " -> "Invalid DOB"
    [] s = " In Network " -> "In Network"
    [] s = " Not available online " -> "Not available online"
    [] OTHER -> s

\* str.upper() on the procedure codes of the model.
Upper(s) ==
  CASE s = "a1" -> "A1"
    [] s = "b2" -> "B2"
    [] OTHER -> s

----------------------------------------------------------------------------
(* Errors *)

IntegrationAuthError(message, status) ==
  [type |-> "IntegrationAuthError", status |-> status, code |-> "",
   msg |-> <<message>>, detail |-> EmptyDict]

IntegrationAPIError(msg, status, code, detail) ==
  [type |-> "IntegrationAPIError", status |-> status, code |-> code,
   msg |-> msg, detail |-> detail]

\* An exception that is not one of the integration's own error types.
PyError(type) ==
  [type |-> type, status |-> 0, code |-> "", msg |-> <<>>, detail |-> EmptyDict]

----------------------------------------------------------------------------
(* Response Classifier *)

\* aiohttp's response.json(): the content type must be JSON and the body decode.
ResponseJson(response) ==
  IF response.body.ctype # "application/json" THEN Raise(PyError("ContentTypeError"))
  ELSE IF response.body.json = NoJson THEN Raise(PyError("JSONDecodeError"))
  ELSE Ok(response.body.json)

\* The message of the alert region: "\n".join(error.text.strip() for error in
\* error_items), one line per td, after the "BCBSAL: API Error: " prefix.
AlertMsg(error_items) == [i \in 1..Len(error_items) |-> Strip(error_items[i])]

\* HandleResponse with the alert region looked at before the login title.
HandleResponseAlertFirst(response) ==
  IF response.status = 200 THEN
    IF ResponseJson(response).ok THEN Ok(ResponseJson(response).val)
    ELSE LET data == response.body IN
      IF data.alertMarker /\ ~data.alertDiv THEN Raise(PyError("AttributeError"))
      ELSE IF data.alertMarker /\ Len(data.alertCells) > 0 THEN
        Raise(IntegrationAPIError(AlertMsg(data.alertCells), 400, "error", EmptyDict))
      ELSE IF data.login THEN Raise(IntegrationAuthError("BCBSAL: Auth failed", 401))
      ELSE Ok(TextData(data))
  ELSE IF response.status = 401 THEN
    Raise(IntegrationAuthError("BCBSAL: Auth failed", response.status))
  ELSE IF response.status = 400 THEN
    Raise(IntegrationAPIError(<<response.reason>>, response.status, response.reason, EmptyDict))
  ELSE
    IF ResponseJson(response).ok THEN
      Raise(IntegrationAPIError(<<"json">>, response.status, response.reason, EmptyDict))
    ELSE Raise(ResponseJson(response).err)

\* _handle_response, lines 31-80.
HandleResponse(response) ==
  IF response.status = 200 THEN
    IF ResponseJson(response).ok THEN Ok(ResponseJson(response).val)
    ELSE LET data == response.body IN
      IF data.login THEN Raise(IntegrationAuthError("BCBSAL: Auth failed", 401))
      ELSE IF data.alertMarker THEN
        IF ~data.alertDiv THEN Raise(PyError("AttributeError"))
        ELSE IF Len(data.alertCells) > 0 THEN
          Raise(IntegrationAPIError(AlertMsg(data.alertCells), 400, "error", EmptyDict))
        ELSE Ok(TextData(data))
      ELSE Ok(TextData(data))
  ELSE IF response.status = 401 THEN
    Raise(IntegrationAuthError("BCBSAL: Auth failed", response.status))
  ELSE IF response.status = 400 THEN
    Raise(IntegrationAPIError(<<response.reason>>, response.status, response.reason, EmptyDict))
  ELSE
    IF ResponseJson(response).ok THEN
      Raise(IntegrationAPIError(<<"json">>, response.status, response.reason, EmptyDict))
    ELSE Raise(ResponseJson(response).err)

----------------------------------------------------------------------------
(* Form Error Scanner *)

GeneralErrorKey(n) ==
  CASE n = 0 -> "general_error_0"
    [] n = 1 -> "general_error_1"
    [] n = 2 -> "general_error_2"
    [] OTHER -> "general_error_n"

RECURSIVE PanelErrors(_, _, _, _)
PanelErrors(error_panels, i, general_error_counter, errors) ==
  IF i > Len(error_panels) THEN errors
  ELSE LET error_text == Strip(error_panels[i]) IN
    IF error_text # "" THEN
      PanelErrors(error_panels, i + 1, general_error_counter + 1,
                  Put(errors, GeneralErrorKey(general_error_counter),
                      [error_message |-> error_text, error_type |-> "general"]))
    ELSE PanelErrors(error_panels, i + 1, general_error_counter, errors)

RECURSIVE InputErrors(_, _, _)
InputErrors(error_inputs, i, errors) ==
  IF i > Len(error_inputs) THEN errors
  ELSE LET input_field == error_inputs[i]
           field_id == IF input_field.id = None THEN "unknown" ELSE input_field.id
           error_message == input_field.title
       IN IF error_message = None THEN InputErrors(error_inputs, i + 1, errors)
          ELSE InputErrors(error_inputs, i + 1,
                 Put(errors, field_id,
                     [error_message |-> error_message,
                      current_value |-> IF input_field.value = None THEN "" ELSE input_field.value,
                      field_name |-> IF input_field.name = None THEN "" ELSE input_field.name,
                      error_type |-> "field"]))

FormErrors(page) ==
  InputErrors(page.errInputs, 1, PanelErrors(page.errPanels, 1, 0, EmptyDict))

ScanFormErrors(html_content) ==
  IF html_content.t # "text" THEN Raise(PyError("TypeError"))
  ELSE IF FormErrors(html_content.v) # EmptyDict THEN
    Raise(IntegrationAPIError(<<"json.dumps(errors)">>, 400, "request_error",
                              FormErrors(html_content.v)))
  ELSE Ok(None)

----------------------------------------------------------------------------
(* Element lookup *)

\* soup.select_one(selector).get(key): AttributeError when no element matches,
\* None when the element lacks the attribute.
GetElementData(selector, soup) ==
  IF soup.attr[selector] = Absent THEN Raise(PyError("AttributeError"))
  ELSE Ok(soup.attr[selector])

----------------------------------------------------------------------------
(* Benefit Table Parser *)

\* '$' in div.text, '%' in div.text and "Benefit Begin" in benefit_text, on the
\* texts the rows of the model contain.
HasDollar(s) == s \in {"$500", "$5 or 10%"}
HasPercent(s) == s \in {"20%", "$5 or 10%"}
HasBenefitBegin(s) == s \in {"Benefit Begin 01/01/2025", "Y Benefit Begin 01/01/2025"}

\* A row (div.eb-row) is a record of its columns:
\*   sec, sub   the text of the column's first div.fonteb, None without one
\*   cov, qty   the texts of the column's div.fonteb elements
\*   freq       the text of the Quantity column ("" without one)
\*   precert    [first: the first div.fonteb's text or None, text: the column's text]
\*   notes      the texts of the li elements of the Messages column's ul
RECURSIVE QtyData(_, _, _)
QtyData(divs, i, data) ==
  IF i > Len(divs) THEN data
  ELSE IF Strip(divs[i]) # "" THEN
    IF HasDollar(divs[i]) THEN QtyData(divs, i + 1, Put(data, "amount", Strip(divs[i])))
    ELSE IF HasPercent(divs[i]) THEN QtyData(divs, i + 1, Put(data, "percentage", Strip(divs[i])))
    ELSE QtyData(divs, i + 1, data)
  ELSE QtyData(divs, i + 1, data)

RECURSIVE Messages(_, _)
Messages(lis, i) ==
  IF i > Len(lis) THEN <<>>
  ELSE IF Strip(lis[i]) # "" THEN <<Strip(lis[i])>> \o Messages(lis, i + 1)
  ELSE Messages(lis, i + 1)

Subsection2Text(row) ==
  IF Len(row.cov) > 0 /\ Strip(row.cov[1]) # "" THEN Strip(row.cov[1]) ELSE None

ProgramText(row) ==
  IF Len(row.cov) > 1 /\ Strip(row.cov[2]) # "" THEN Strip(row.cov[2]) ELSE None

RowData(row) ==
  LET d0 == IF ProgramText(row) # None THEN Put(EmptyDict, "program", ProgramText(row))
            ELSE EmptyDict
      d1 == QtyData(row.qty, 1, d0)
      d2 == IF Strip(row.freq) # "" THEN Put(d1, "frequency", Strip(row.freq)) ELSE d1
      d3 == IF row.precert.first # None /\ Strip(row.precert.first) # ""
            THEN Put(d2, "precertification", Strip(row.precert.first)) ELSE d2
      d4 == IF Strip(row.precert.text) # "" /\ HasBenefitBegin(Strip(row.precert.text))
            THEN Put(d3, "benefit_begin", Strip(row.precert.text)) ELSE d3
      d5 == IF Messages(row.notes, 1) # <<>> THEN Put(d4, "notes", Messages(row.notes, 1))
            ELSE d4
  IN d5

\* The parser's running state: the result and the three current labels.
ParserInit ==
  [result |-> EmptyDict, current_section |-> None, current_subsection |-> None,
   current_subsection2 |-> None]

\* Lines 356-365: the section column.
SectionStep(st, row) ==
  IF row.sec # None /\ Strip(row.sec) # "" THEN
    [st EXCEPT !.current_section = Strip(row.sec),
               !.result = IF Strip(row.sec) \in DOMAIN st.result THEN st.result
                          ELSE Put(st.result, Strip(row.sec), EmptyDict),
               !.current_subsection = None,
               !.current_subsection2 = None]
  ELSE st

\* SubsectionStep with the sub-group kept across a change of subsection.
SubsectionStepNoReset(st, row) ==
  IF row.sub # None /\ Strip(row.sub) # "" THEN
    LET cs == st.current_section
        sub == Strip(row.sub) IN
    [st EXCEPT !.current_subsection = sub,
               !.result = IF sub \in DOMAIN st.result[cs] THEN st.result
                          ELSE Put(st.result, cs, Put(st.result[cs], sub, EmptyDict))]
  ELSE st

\* SubsectionStep with the label's text not stripped.
SubsectionStepNoStrip(st, row) ==
  IF row.sub # None /\ Strip(row.sub) # "" THEN
    LET cs == st.current_section IN
    [st EXCEPT !.current_subsection = row.sub,
               !.result = IF row.sub \in DOMAIN st.result[cs] THEN st.result
                          ELSE Put(st.result, cs, Put(st.result[cs], row.sub, EmptyDict)),
               !.current_subsection2 = None]
  ELSE st

\* Lines 372-380: the subsection column.
SubsectionStep(st, row) ==
  IF row.sub # None /\ Strip(row.sub) # "" THEN
    LET cs == st.current_section
        sub == Strip(row.sub) IN
    [st EXCEPT !.current_subsection = sub,
               !.result = IF sub \in DOMAIN st.result[cs] THEN st.result
                          ELSE Put(st.result, cs, Put(st.result[cs], sub, EmptyDict)),
               !.current_subsection2 = None]
  ELSE st

\* Lines 402-405: the sub-group column.
Subsection2Step(st, row) ==
  IF Subsection2Text(row) # None THEN
    LET cs == st.current_section
        sub == st.current_subsection
        s2 == Subsection2Text(row) IN
    [st EXCEPT !.current_subsection2 = s2,
               !.result = IF s2 \in DOMAIN st.result[cs][sub] THEN st.result
                          ELSE Put(st.result, cs,
                                   Put(st.result[cs], sub, Put(st.result[cs][sub], s2, <<>>)))]
  ELSE st

\* Lines 458-467: store the row's data.
StoreStep(st, row) ==
  IF RowData(row) # EmptyDict THEN
    LET cs == st.current_section
        sub == st.current_subsection
        key == IF st.current_subsection2 # None THEN st.current_subsection2
               ELSE IF ProgramText(row) # None THEN ProgramText(row) ELSE "Other"
        old == IF key \in DOMAIN st.result[cs][sub] THEN st.result[cs][sub][key] ELSE <<>>
    IN [st EXCEPT !.result = Put(st.result, cs,
                                 Put(st.result[cs], sub,
                                     Put(st.result[cs][sub], key, Append(old, RowData(row)))))]
  ELSE st

\* One iteration of the loop over the rows (lines 351-467).
ParseRow(st, row) ==
  LET s1 == SectionStep(st, row) IN
  IF s1.current_section = None THEN s1
  ELSE LET s2 == SubsectionStep(s1, row) IN
    IF s2.current_subsection = None THEN s2
    ELSE StoreStep(Subsection2Step(s2, row), row)

RECURSIVE ParseRows(_, _, _)
ParseRows(rows, i, st) ==
  IF i > Len(rows) THEN st ELSE ParseRows(rows, i + 1, ParseRow(st, rows[i]))

\* table_element is None when select_one found no panel: None.find_all raises.
ParseInsuranceTable(table_element) ==
  IF ~table_element.present THEN Raise(PyError("AttributeError"))
  ELSE Ok(ParseRows(table_element.rows, 1, ParserInit).result)

----------------------------------------------------------------------------
(* Script-JSON Extractor and the outpatient message *)

\* A precertification response's script fragment, by what lines 316-319 and
\* _extract_script_json find in it:
\*   "none"         no "outpatientSetting" in the page
\*   "nocpt"        no "cptCode" after "outpatientSetting"
\*   "nomatch"      no JSON.parse('...') in the section
\*   "undecodable"  the literal does not decode
\*   "nomsg"        decodes to a mapping without "outpatientMessage"
\*   "msg"          decodes to a mapping with "outpatientMessage"
ExtractScriptJson(script) ==
  IF script \in {"none", "nocpt", "nomatch", "undecodable"} THEN JNull
  ELSE JDict(IF script = "msg" THEN "Outpatient precertification required" ELSE None)

\* Lines 312-320: the explicit unavailability message, else the script's.
CodeMessage(page) ==
  IF page.errorDiv # Absent THEN Ok(Strip(page.errorDiv))
  ELSE IF ExtractScriptJson(page.script) = JNull THEN Raise(PyError("AttributeError"))
  ELSE Ok(ExtractScriptJson(page.script).v)

----------------------------------------------------------------------------
(* Requests *)

Url == "https://providers.bcbsal.org"
EligibilityPath == <<Url, "/portal/group/pa/eligibility">>
UtilizationPath == <<Url, "/portal/group/pa/utilization-review-physician">>
CodesPath == <<Url, "/pa-medical-coding-ws/data/getAllActiveProcedureCodes">>
\* A URL scraped from a page's form.
Scraped(action) == <<action>>

AcceptHtml == "text/html,application/xhtml+xml,application/xml;q=0.9,*/*;q=0.8"
FormUrlEncoded == "application/x-www-form-urlencoded"

Request(method, url, hdrs, data) ==
  [ev |-> "req", method |-> method, url |-> url, headers |-> hdrs, data |-> data]
\* A log entry for a response: what the classifier returned or raised for it.
ResponseEvent(hr) == [ev |-> "resp", ok |-> hr.ok, hr |-> hr]

\* The 13 hidden inputs of the eligibility page, in the order they are read.
HiddenInputs ==
  <<"businessName", "billingNpi", "taxId", "businessBscSys", "businessListIndex",
    "providerListIndex", "provName", "provNpi", "lifetimeProviderId", "bscSys",
    "isByPassEnabled", "byPassCount", "serviceTypeCode">>
HiddenInputSet == {HiddenInputs[i] : i \in 1..Len(HiddenInputs)}
Forms == {"form#selectorForm", "form#ebHeaderForm", "form#precertificationSearchForm"}
Selectors == HiddenInputSet \cup Forms
Panels ==
  {"Covered-panel-1", "Covered-panel-14", "Covered-panel-2", "Covered-panel-3",
   "Covered-panel-9", "Covered-panel-12"}

\* Lines 122-148.
EligData(soup, patient) ==
  [k \in HiddenInputSet |-> Fmt(soup.attr[k])] @@
  [k \in {"patientFullName", "contractNrFinder", "socialSecurityNumber",
          "business-name", "prov-name", "gender"} |-> ""] @@
  ("submitTyp" :> "Continue") @@
  ("contractNr" :> Fmt(patient.contract_id)) @@
  ("firstNm" :> Fmt(patient.first_name)) @@
  ("midInit" :> Fmt(patient.mid_init)) @@
  ("lastNm" :> Fmt(patient.last_name)) @@
  ("dob" :> Fmt(patient.dob))

\* Lines 176-182.
UpdateData(today) ==
  ("submitType" :> "") @@ ("networkType" :> "all") @@
  ("selectedServiceOrDental" :> "S") @@ ("serviceType" :> "5") @@
  ("dateOfService" :> today)

\* Lines 253-260.
JwtParams ==
  ("p_p_id" :> "selector_WAR_paselectorportlet") @@ ("p_p_lifecycle" :> "2") @@
  ("p_p_state" :> "normal") @@ ("p_p_mode" :> "view") @@
  ("p_p_resource_id" :> "generateBusinessToken") @@
  ("p_p_cacheability" :> "cacheLevelPage")

\* Lines 303-307.
Q0138Data(code_data, code) ==
  ("cptCodeDescription" :> Fmt(code_data.description)) @@
  ("cptCodeType" :> Fmt(code_data.codeType)) @@
  ("cptCode" :> code)

\* f"{jwt}" of whatever the token request returned.
FmtData(data) ==
  CASE data.t = "null" -> "None"
    [] data.t = "str" -> data.v
    [] data.t = "text" -> data.v.raw
    [] OTHER -> "<repr>"

\* Lines 91-97.
EligibilityPageRequest(hdrs) ==
  Request("GET", EligibilityPath, Put(hdrs, "Accept", AcceptHtml), EmptyDict)

\* Lines 252-267.
CacheJwtRequest(hdrs) ==
  Request("POST", UtilizationPath,
          Put(Put(hdrs, "X-Requested-With", "XMLHttpRequest"),
              "Content-Type", "application/x-www-form-urlencoded; charset=UTF-8"),
          JwtParams)

\* Lines 269-279.
PreServiceCodesRequest(hdrs, jwt) ==
  Request("GET", CodesPath,
          Put(Put(Put(Put(hdrs, "X-Requested-With", "XMLHttpRequest"),
                      "Content-Type", "application/json"),
                  "Authorization", <<"Bearer", FmtData(jwt)>>),
              "Accept", "application/json"),
          EmptyDict)

----------------------------------------------------------------------------
(* State *)

VARIABLES
  headers,            \* self.headers: the session's header template (None before initialize)
  network_requester,  \* self.network_requester
  run,                \* the run in progress: its position, arguments, locals, requests
  response,           \* a response handed to the Response Classifier on its own
  classified,         \* what the classifier made of it
  peer,               \* a second run in progress on the same instance
  arg,                \* the argument of a helper called on its own
  ret,                \* what the helper returned or raised
  parser              \* the Benefit Table Parser's loop: the next row and its locals

vars == <<headers, network_requester, run, response, classified, peer, arg, ret, parser>>

NoHeaders == [t |-> "null"]
NoOutcome == [kind |-> "none"]
NoPatient ==
  [contract_id |-> None, first_name |-> None, last_name |-> None, mid_init |-> None,
   dob |-> None]
NoCodeData == [code |-> None, description |-> None, codeType |-> None]

\* A run: pc is the await the run is suspended at, log the requests it issued
\* and the responses it received, in order; the other fields are the locals of
\* get_coverage_data and _get_pre_service_data under their own names.
IdleRun ==
  [pc |-> "idle", op |-> None, patient |-> NoPatient, preservice_codes |-> JNull,
   log |-> <<>>, outcome |-> NoOutcome,
   headers |-> EmptyDict, update_path |-> None, update_data |-> EmptyDict,
   coverage |-> EmptyDict, auth_jwt |-> JNull, all_codes |-> JNull,
   preservice_data_list |-> <<>>, i |-> 1,
   code |-> None, jwt_token |-> JNull, codes_list |-> JNull, code_data |-> NoCodeData,
   pre_headers |-> EmptyDict]

\* The frame is gone when the run ends: only what the caller sees remains.
Ended(r, outcome) ==
  [IdleRun EXCEPT !.pc = "done", !.op = r.op, !.patient = r.patient,
                  !.preservice_codes = r.preservice_codes, !.log = r.log,
                  !.outcome = outcome]
Return(r, val) == Ended(r, [kind |-> "return", val |-> val])
\* Fail handing the caller what the run has gathered so far instead of the error.
FailReturnsPartial(r, err) ==
  Return(r, [coverage |-> r.coverage, preservice |-> r.preservice_data_list])
\* An exception leaves the coroutine: nothing in lines 99-243 catches it.
Fail(r, err) == Ended(r, [kind |-> "raise", err |-> err])

\* await self._make_request(...): the request goes out and the run suspends.
Send(r, request, pc) == [r EXCEPT !.log = Append(@, request), !.pc = pc]
\* The response of the outstanding request has come back and been classified.
Received(r, hr) == [r EXCEPT !.log = Append(@, ResponseEvent(hr))]

----------------------------------------------------------------------------
(* get_coverage_data, lines 99-243, one operator per await *)

\* Lines 99-103: up to the eligibility page request.
StartCoverageData(hdrs, patient, preservice_codes) ==
  LET r == [IdleRun EXCEPT !.op = "get_coverage_data", !.patient = patient,
                           !.preservice_codes = preservice_codes]
  IN IF hdrs = NoHeaders THEN Fail(r, PyError("AttributeError"))
     ELSE Send(r, EligibilityPageRequest(hdrs), "eligibility_page")

\* The first hidden input (in reading order) the page lacks, 0 if none.
FirstMissingInput(soup) ==
  IF \E i \in 1..Len(HiddenInputs) : soup.attr[HiddenInputs[i]] = Absent
  THEN CHOOSE i \in 1..Len(HiddenInputs) :
         /\ soup.attr[HiddenInputs[i]] = Absent
         /\ \A j \in 1..(i - 1) : soup.attr[HiddenInputs[j]] # Absent
  ELSE 0

\* Lines 103-155: scrape the eligibility page, submit the lookup form.
AfterEligibilityPage(r0, hdrs, resp) ==
  LET hr == HandleResponse(resp)
      r == Received(r0, hr)
  IN IF ~hr.ok THEN Fail(r, hr.err) ELSE
     LET eligibility_soup == hr.val.v
         path == GetElementData("form#selectorForm", eligibility_soup)
         headers_ == Put(Put(hdrs, "Content-Type", FormUrlEncoded), "Accept", AcceptHtml)
     IN IF FirstMissingInput(eligibility_soup) # 0 THEN Fail(r, PyError("AttributeError"))
        ELSE IF ~path.ok THEN Fail(r, path.err)
        ELSE Send([r EXCEPT !.headers = headers_],
                  Request("POST", Scraped(path.val), headers_,
                          EligData(eligibility_soup, r.patient)),
                  "health_benefit_page")

\* A category switch: lines 183-185, 194-196, 205-207.
SwitchRequest(r) ==
  Request("POST", Scraped(r.update_path), r.headers, r.update_data)

\* Lines 155-185: the benefits page; two panels; switch to the lab category.
AfterHealthBenefitPage(r0, resp, today) ==
  LET hr == HandleResponse(resp)
      r == Received(r0, hr)
  IN IF ~hr.ok THEN Fail(r, hr.err)
     ELSE IF ~ScanFormErrors(hr.val).ok THEN Fail(r, ScanFormErrors(hr.val).err)
     ELSE
     LET health_benefit_soup == hr.val.v
         health_plan_coverage ==
           ParseInsuranceTable(health_benefit_soup.panels["Covered-panel-1"])
         professional_office_coverage ==
           ParseInsuranceTable(health_benefit_soup.panels["Covered-panel-14"])
         update_path == GetElementData("form#ebHeaderForm", health_benefit_soup)
     IN IF ~health_benefit_soup.marker THEN
          Fail(r, IntegrationAPIError(<<"Failed to load Coverage page content">>, 500,
                                      "server_error", EmptyDict))
        ELSE IF ~health_plan_coverage.ok THEN Fail(r, health_plan_coverage.err)
        ELSE IF ~professional_office_coverage.ok THEN Fail(r, professional_office_coverage.err)
        ELSE IF ~update_path.ok THEN Fail(r, update_path.err)
        ELSE LET r1 == [r EXCEPT
                          !.coverage = ("health_benefit" :> health_plan_coverage.val) @@
                                       ("professional_office" :> professional_office_coverage.val),
                          !.update_path = update_path.val,
                          !.update_data = UpdateData(today)]
             IN Send(r1, SwitchRequest(r1), "diagnostic_lab_page")

\* Lines 186-196 and 197-207: one panel of a category page, then the next switch.
AfterCategoryPage(r0, resp, panel, category, serviceType, pc) ==
  LET hr == HandleResponse(resp)
      r == Received(r0, hr)
  IN IF ~hr.ok THEN Fail(r, hr.err)
     ELSE IF ~ScanFormErrors(hr.val).ok THEN Fail(r, ScanFormErrors(hr.val).err)
     ELSE
     LET coverage == ParseInsuranceTable(hr.val.v.panels[panel])
     IN IF ~coverage.ok THEN Fail(r, coverage.err)
        ELSE LET r1 == [r EXCEPT !.coverage = Put(@, category, coverage.val),
                                 !.update_data = Put(@, "serviceType", serviceType)]
             IN Send(r1, SwitchRequest(r1), pc)

\* AfterDiagnosticLabPage switching to medical care before medical diagnostics.
AfterDiagnosticLabPageWrongOrder(r0, resp) ==
  AfterCategoryPage(r0, resp, "Covered-panel-2", "diagnostic_lab", "1",
                    "diagnostic_medical_page")

AfterDiagnosticLabPage(r0, resp) ==
  AfterCategoryPage(r0, resp, "Covered-panel-2", "diagnostic_lab", "73",
                    "diagnostic_medical_page")

AfterDiagnosticMedicalPage(r0, resp) ==
  AfterCategoryPage(r0, resp, "Covered-panel-3", "diagnostic_medical", "1",
                    "medical_care_page")

\* Lines 230-243: the result handed to the caller.
CoverageResult(r) == [coverage |-> r.coverage, preservice |-> r.preservice_data_list]

\* next(item for item in preservice_codes if item.get("code") == code, None)
RECURSIVE FindCode(_, _, _)
FindCode(items, i, code) ==
  IF i > Len(items) THEN JNull
  ELSE IF items[i].code = code THEN JDict(items[i])
  ELSE FindCode(items, i + 1, code)

\* Line 289 on whatever the catalog request returned: a list of mappings is
\* searched; None is not iterable; the items of a string have no .get.
LookupCode(codes_list, code) ==
  CASE codes_list.t = "list" -> Ok(FindCode(codes_list.v, 1, code))
    [] codes_list.t = "null" -> Raise(PyError("TypeError"))
    [] codes_list.t = "text" ->
         IF codes_list.v.raw = "" THEN Ok(JNull) ELSE Raise(PyError("AttributeError"))
    [] OTHER -> Raise(PyError("AttributeError"))

NotFound(code) == JStr(<<code, "not found in codes list">>)

\* Lines 222-228 with _get_pre_service_data's lines 281-297: the loop over the
\* requested codes, from code r.i on, up to the next request (or the return).
RECURSIVE NextCode(_, _)
RECURSIVE WithJwt(_, _)
RECURSIVE WithCodes(_, _)
NextCode(r, hdrs) ==
  IF r.i > Len(r.preservice_codes.v) THEN Return(r, CoverageResult(r))
  ELSE LET r1 == [r EXCEPT !.code = Upper(r.preservice_codes.v[r.i])]
       IN IF r.auth_jwt = JNull THEN Send(r1, CacheJwtRequest(hdrs), "own_jwt")
          ELSE WithJwt([r1 EXCEPT !.jwt_token = r.auth_jwt], hdrs)

\* Line 287.
WithJwt(r, hdrs) ==
  IF r.all_codes = JNull
  THEN Send(r, PreServiceCodesRequest(hdrs, r.jwt_token), "own_codes")
  ELSE WithCodes([r EXCEPT !.codes_list = r.all_codes], hdrs)

\* WithCodes with next(...) without its default: an absent code raises.
WithCodesNoDefault(r, hdrs) ==
  LET code_data == LookupCode(r.codes_list, r.code)
      pre_headers == Put(hdrs, "Accept", AcceptHtml)
  IN IF ~code_data.ok THEN Fail(r, code_data.err)
     ELSE IF code_data.val = JNull THEN Fail(r, PyError("StopIteration"))
     ELSE Send([r EXCEPT !.code_data = code_data.val.v, !.pre_headers = pre_headers],
               Request("GET", UtilizationPath, pre_headers, EmptyDict),
               "pre_service_page")

\* Lines 289-297.
WithCodes(r, hdrs) ==
  LET code_data == LookupCode(r.codes_list, r.code)
      pre_headers == Put(hdrs, "Accept", AcceptHtml)
  IN IF ~code_data.ok THEN Fail(r, code_data.err)
     ELSE IF code_data.val = JNull THEN
       NextCode([r EXCEPT !.preservice_data_list = Append(@, NotFound(r.code)),
                          !.i = @ + 1], hdrs)
     ELSE Send([r EXCEPT !.code_data = code_data.val.v, !.pre_headers = pre_headers],
               Request("GET", UtilizationPath, pre_headers, EmptyDict),
               "pre_service_page")

\* Lines 208-220: the last two panels, then the token request or the return.
AfterMedicalCarePage(r0, hdrs, resp) ==
  LET hr == HandleResponse(resp)
      r == Received(r0, hr)
  IN IF ~hr.ok THEN Fail(r, hr.err)
     ELSE IF ~ScanFormErrors(hr.val).ok THEN Fail(r, ScanFormErrors(hr.val).err)
     ELSE
     LET medical_care_coverage == ParseInsuranceTable(hr.val.v.panels["Covered-panel-9"])
         iv_therapy_coverage == ParseInsuranceTable(hr.val.v.panels["Covered-panel-12"])
     IN IF ~medical_care_coverage.ok THEN Fail(r, medical_care_coverage.err)
        ELSE IF ~iv_therapy_coverage.ok THEN Fail(r, iv_therapy_coverage.err)
        ELSE LET r1 == [r EXCEPT !.coverage =
                          Put(Put(@, "medical_care", medical_care_coverage.val),
                              "iv_therapy", iv_therapy_coverage.val)]
             IN IF r1.preservice_codes # JNull
                THEN Send(r1, CacheJwtRequest(hdrs), "cache_jwt")
                ELSE Return(r1, CoverageResult(r1))

\* AfterCacheJwt with the token used for the catalog request but not kept.
AfterCacheJwtNotKept(r0, hdrs, resp) ==
  LET hr == HandleResponse(resp)
      r == Received(r0, hr)
  IN IF ~hr.ok THEN Fail(r, hr.err)
     ELSE Send(r, PreServiceCodesRequest(hdrs, hr.val), "pre_service_codes")

\* Lines 219-220: the token, then the catalog request.
AfterCacheJwt(r0, hdrs, resp) ==
  LET hr == HandleResponse(resp)
      r == Received(r0, hr)
  IN IF ~hr.ok THEN Fail(r, hr.err)
     ELSE Send([r EXCEPT !.auth_jwt = hr.val], PreServiceCodesRequest(hdrs, hr.val),
               "pre_service_codes")

\* Lines 220-222: the catalog, then the loop over the requested codes.
AfterPreServiceCodes(r0, hdrs, resp) ==
  LET hr == HandleResponse(resp)
      r == Received(r0, hr)
  IN IF ~hr.ok THEN Fail(r, hr.err)
     ELSE NextCode([r EXCEPT !.all_codes = hr.val, !.i = 1], hdrs)

\* Line 286, when no token was handed in: the lookup's own token request.
AfterOwnJwt(r0, hdrs, resp) ==
  LET hr == HandleResponse(resp)
      r == Received(r0, hr)
  IN IF ~hr.ok THEN Fail(r, hr.err)
     ELSE WithJwt([r EXCEPT !.jwt_token = hr.val], hdrs)

\* Line 287, when no catalog was handed in: the lookup's own catalog request.
AfterOwnCodes(r0, hdrs, resp) ==
  LET hr == HandleResponse(resp)
      r == Received(r0, hr)
  IN IF ~hr.ok THEN Fail(r, hr.err)
     ELSE WithCodes([r EXCEPT !.codes_list = hr.val], hdrs)

\* Lines 297-310: the precertification page, then the search form.
AfterPreServicePage(r0, resp) ==
  LET hr == HandleResponse(resp)
      r == Received(r0, hr)
  IN IF ~hr.ok THEN Fail(r, hr.err) ELSE
     LET search_form_path == GetElementData("form#precertificationSearchForm", hr.val.v)
     IN IF ~search_form_path.ok THEN Fail(r, search_form_path.err)
        ELSE Send(r, Request("POST", Scraped(search_form_path.val), r.pre_headers,
                             Q0138Data(r.code_data, r.code)),
                  "code_response")

\* AfterCodeResponse with the code's result put at the head of the list.
AfterCodeResponsePrepends(r0, hdrs, resp) ==
  LET hr == HandleResponse(resp)
      r == Received(r0, hr)
  IN IF ~hr.ok THEN Fail(r, hr.err) ELSE
     LET code_message == CodeMessage(hr.val.v)
     IN IF ~code_message.ok THEN Fail(r, code_message.err)
        ELSE LET result == JDict([outpatient_data |-> code_message.val,
                                  description |-> r.code_data.description,
                                  code |-> r.code])
             IN NextCode([r EXCEPT !.preservice_data_list = <<result>> \o @,
                                   !.i = @ + 1], hdrs)

\* Lines 308-327 and 228: the code's result, then the next code.
AfterCodeResponse(r0, hdrs, resp) ==
  LET hr == HandleResponse(resp)
      r == Received(r0, hr)
  IN IF ~hr.ok THEN Fail(r, hr.err) ELSE
     LET code_message == CodeMessage(hr.val.v)
     IN IF ~code_message.ok THEN Fail(r, code_message.err)
        ELSE LET result == JDict([outpatient_data |-> code_message.val,
                                  description |-> r.code_data.description,
                                  code |-> r.code])
             IN NextCode([r EXCEPT !.preservice_data_list = Append(@, result),
                                   !.i = @ + 1], hdrs)

----------------------------------------------------------------------------
(* get_preservice_codes, lines 245-250 *)

StartPreserviceCodes(hdrs) ==
  LET r == [IdleRun EXCEPT !.op = "get_preservice_codes"]
  IN IF hdrs = NoHeaders THEN Fail(r, PyError("AttributeError"))
     ELSE Send(r, EligibilityPageRequest(hdrs), "eligibility_page")

\* Lines 246-247: the eligibility page is fetched and dropped; the token request.
CodesAfterEligibilityPage(r0, hdrs, resp) ==
  LET hr == HandleResponse(resp)
      r == Received(r0, hr)
  IN IF ~hr.ok THEN Fail(r, hr.err)
     ELSE Send(r, CacheJwtRequest(hdrs), "cache_jwt")

\* CodesAfterCacheJwt with the catalog request built without the token.
CodesAfterCacheJwtNoToken(r0, hdrs, resp) ==
  LET hr == HandleResponse(resp)
      r == Received(r0, hr)
  IN IF ~hr.ok THEN Fail(r, hr.err)
     ELSE Send([r EXCEPT !.auth_jwt = hr.val], PreServiceCodesRequest(hdrs, JNull),
               "pre_service_codes")

\* Lines 247-248.
CodesAfterCacheJwt(r0, hdrs, resp) ==
  LET hr == HandleResponse(resp)
      r == Received(r0, hr)
  IN IF ~hr.ok THEN Fail(r, hr.err)
     ELSE Send([r EXCEPT !.auth_jwt = hr.val], PreServiceCodesRequest(hdrs, hr.val),
               "pre_service_codes")

\* Lines 248-250.
CodesAfterPreServiceCodes(r0, resp) ==
  LET hr == HandleResponse(resp)
      r == Received(r0, hr)
  IN IF ~hr.ok THEN Fail(r, hr.err) ELSE Return(r, hr.val)

----------------------------------------------------------------------------
(* The portal: the responses the model lets it give *)

MaxCells == 2      \* td cells in an alert region
MaxCodes == 2      \* requested procedure codes in one run

NoPanel == [present |-> FALSE, rows |-> <<>>]
Panel(rows) == [present |-> TRUE, rows |-> rows]

\* A page by what the code looks for in it.
BlankPage ==
  [ctype |-> "text/html", json |-> NoJson, raw |-> "",
   login |-> FALSE,                  \* "<title>login - provider.bcbsal.org</title>" in data
   alertMarker |-> FALSE,            \* "AlrtmsgsId" in data
   alertDiv |-> FALSE,               \* div#AlrtmsgsId exists
   alertCells |-> <<>>,              \* the texts of its td elements
   errPanels |-> <<>>,               \* the texts of the .panel-error elements
   errInputs |-> <<>>,               \* the input.error elements
   attr |-> [s \in Selectors |-> Absent],   \* value / action of the selected elements
   marker |-> FALSE,                 \* div#ebBottomTabs exists
   panels |-> [p \in Panels |-> NoPanel],
   errorDiv |-> Absent,              \* the precertification ErrorDiv's text
   script |-> "none"]

JsonBody(json) == [BlankPage EXCEPT !.ctype = "application/json", !.json = json]
TextBody(raw) == [BlankPage EXCEPT !.raw = raw]

Resp(status, reason, body) == [status |-> status, reason |-> reason, body |-> body]
Ok200(body) == Resp(200, "OK", body)

LoginPage == [BlankPage EXCEPT !.login = TRUE]
AlertPage(cells) ==
  [BlankPage EXCEPT !.alertMarker = TRUE, !.alertDiv = TRUE, !.alertCells = cells]

\* What the portal may answer to any request instead of the expected page: one
\* response for every way the classifier fails.
FailureResponses ==
  { Resp(401, "Unauthorized", BlankPage),
    Resp(500, "Internal Server Error", JsonBody(JDict("error"))),
    Resp(500, "Internal Server Error", TextBody("Internal Server Error")),
    Ok200(AlertPage(<<" Invalid DOB ">>)) }

\* The same for the requests of the pre-service stage.
PreServiceFailureResponses ==
  { Resp(401, "Unauthorized", BlankPage),
    Resp(500, "Internal Server Error", TextBody("Internal Server Error")) }

PanelErrorPage == [BlankPage EXCEPT !.errPanels = <<"Member not found">>]
InputErrorPage ==
  [BlankPage EXCEPT !.errInputs =
     <<[id |-> "dob", title |-> "Invalid date", value |-> "13/45/2020", name |-> "dob"]>>]

FullRow ==
  [sec |-> "Deductible", sub |-> " In Network ", cov |-> <<"Individual", "PPO">>,
   qty |-> <<"$500">>, freq |-> "Calendar Year",
   precert |-> [first |-> "Y", text |-> "Y Benefit Begin 01/01/2025"],
   notes |-> <<"Applies to all services">>]
ContinuationRow ==
  [sec |-> None, sub |-> None, cov |-> <<>>, qty |-> <<"20%">>, freq |-> "",
   precert |-> [first |-> None, text |-> ""], notes |-> <<>>]

GoodEligAttr ==
  [s \in Selectors |->
     IF s \in HiddenInputSet THEN s
     ELSE IF s = "form#selectorForm" THEN "/portal/eligibility/lookup" ELSE Absent]
EligPage(attr) == [BlankPage EXCEPT !.attr = attr]
EligibilityResponses ==
  FailureResponses \cup
  { Ok200(EligPage(GoodEligAttr)),
    Ok200(EligPage([GoodEligAttr EXCEPT !["taxId"] = Absent])),
    Ok200(EligPage([GoodEligAttr EXCEPT !["taxId"] = None])),
    Ok200(EligPage([GoodEligAttr EXCEPT !["form#selectorForm"] = Absent])),
    Ok200(EligPage([GoodEligAttr EXCEPT !["form#selectorForm"] = None])) }

BenefitPage(panels) ==
  [BlankPage EXCEPT !.marker = TRUE,
                    !.attr = [@ EXCEPT !["form#ebHeaderForm"] = "/portal/eligibility/benefits"],
                    !.panels = panels @@ @]
TwoPanels == ("Covered-panel-1" :> Panel(<<FullRow>>)) @@ ("Covered-panel-14" :> Panel(<<FullRow>>))
HealthBenefitResponses ==
  FailureResponses \cup {Ok200(PanelErrorPage), Ok200(InputErrorPage)} \cup
  { Ok200(BenefitPage(TwoPanels)),
    Ok200(BenefitPage(("Covered-panel-1" :> Panel(<<FullRow>>)) @@
                      ("Covered-panel-14" :> Panel(<<>>)))),
    Ok200([BenefitPage(TwoPanels) EXCEPT !.marker = FALSE]),
    Ok200(BenefitPage("Covered-panel-1" :> Panel(<<FullRow>>))),
    Ok200([BenefitPage(TwoPanels) EXCEPT !.attr = [@ EXCEPT !["form#ebHeaderForm"] = Absent]]),
    Ok200([BenefitPage(TwoPanels) EXCEPT !.attr = [@ EXCEPT !["form#ebHeaderForm"] = None]]) }

CategoryResponses(panel) ==
  FailureResponses \cup {Ok200(PanelErrorPage)} \cup
  { Ok200(BenefitPage(panel :> Panel(<<FullRow, ContinuationRow>>))),
    Ok200(BenefitPage(TwoPanels)) }

MedicalCareResponses ==
  FailureResponses \cup {Ok200(PanelErrorPage)} \cup
  { Ok200(BenefitPage(("Covered-panel-9" :> Panel(<<FullRow>>)) @@
                      ("Covered-panel-12" :> Panel(<<ContinuationRow>>)))),
    Ok200(BenefitPage("Covered-panel-9" :> Panel(<<FullRow>>))) }

JwtResponses ==
  PreServiceFailureResponses \cup
  { Ok200(JsonBody(JStr("jwt-1"))), Ok200(JsonBody(JNull)) }

Catalog ==
  << [code |-> "A1", description |-> "Office visit", codeType |-> "CPT"],
     [code |-> "b2", description |-> "Lower-case entry", codeType |-> None] >>
CodesResponses ==
  PreServiceFailureResponses \cup
  { Ok200(JsonBody(JList(Catalog))), Ok200(JsonBody(JNull)), Ok200(TextBody("<html>")) }

PreServicePageResponses ==
  PreServiceFailureResponses \cup
  { Ok200(EligPage([GoodEligAttr EXCEPT !["form#precertificationSearchForm"] = "/portal/precert/search"])),
    Ok200(EligPage(GoodEligAttr)),
    Ok200(EligPage([GoodEligAttr EXCEPT !["form#precertificationSearchForm"] = None])) }

CodeResponses ==
  PreServiceFailureResponses \cup
  { Ok200([BlankPage EXCEPT !.errorDiv = " Not available online "]),
    Ok200([BlankPage EXCEPT !.script = "msg"]),
    Ok200([BlankPage EXCEPT !.script = "nomsg"]),
    Ok200([BlankPage EXCEPT !.script = "undecodable"]),
    Ok200(BlankPage),
    Ok200(PanelErrorPage) }

\* The arguments of a call.
Patients ==
  { [contract_id |-> "XAB123", first_name |-> "Ann", last_name |-> "Lee", mid_init |-> "Q",
     dob |-> "01/02/1980"] }
RequestedCodes == {"a1", "b2"}
CodeLists == UNION {[1..n -> RequestedCodes] : n \in 0..MaxCodes}
CodeArgs == {JNull} \cup {JList(l) : l \in CodeLists}
\* initialize's arguments: a cookie with the default transport or with a requester.
Sessions ==
  { [token |-> "JSESSIONID=s1", network_requester |-> None],
    [token |-> "JSESSIONID=s2", network_requester |-> "requester"] }
Dates == {"11/06/2026"}

----------------------------------------------------------------------------
(* Actions *)

NotClassified == [ok |-> FALSE, err |-> PyError("pending")]
NoArg == [t |-> "null"]
NoResult == [ok |-> FALSE, err |-> PyError("pending")]
NoParser == [i |-> 0, st |-> ParserInit]
NoResponse == Resp(0, "", BlankPage)

\* A request that lacks its URL or a hidden field's value (the scrape gave None)
\* is not one the portal answers with the page the workflow expects.
Malformed(request) ==
  \/ request.url = Scraped(None)
  \/ \E k \in DOMAIN request.data : k \in HiddenInputSet /\ request.data[k] = "None"
Answers(responses) ==
  IF Malformed(run.log[Len(run.log)]) THEN FailureResponses ELSE responses

\* __init__, lines 13-18.
Init ==
  /\ headers = NoHeaders
  /\ network_requester = None
  /\ run = IdleRun
  /\ response = NoResponse
  /\ classified = NotClassified
  /\ peer = IdleRun
  /\ arg = NoArg
  /\ ret = NoResult
  /\ parser = NoParser

Idle == run.pc \in {"idle", "done"}
At(op, pc) == run.op = op /\ run.pc = pc

\* Lines 83-88.
HeaderTemplate(token) ==
  ("Host" :> "providers.bcbsal.org") @@ ("User-Agent" :> "user_agent") @@
  ("Cookie" :> token) @@ ("Accept-Encoding" :> "gzip")

\* initialize, lines 82-89, on an instance with no run yet (a later initialize
\* between two runs leads to the states an earlier one leads to: a call starts
\* from the template alone).
Initialize ==
  /\ run.pc = "idle"
  /\ \E session \in Sessions :
       /\ headers' = HeaderTemplate(session.token)
       /\ network_requester' = session.network_requester
  /\ UNCHANGED <<run, response, classified, peer, arg, ret, parser>>

\* A call of get_coverage_data, up to its first await.
CallGetCoverageData ==
  /\ Idle
  /\ \E patient \in Patients, preservice_codes \in CodeArgs :
       run' = StartCoverageData(headers, patient, preservice_codes)
  /\ UNCHANGED <<headers, network_requester, response, classified, peer, arg, ret, parser>>

RecvEligibilityPage ==
  /\ At("get_coverage_data", "eligibility_page")
  /\ \E resp \in Answers(EligibilityResponses) : run' = AfterEligibilityPage(run, headers, resp)
  /\ UNCHANGED <<headers, network_requester, response, classified, peer, arg, ret, parser>>

RecvHealthBenefitPage ==
  /\ At("get_coverage_data", "health_benefit_page")
  /\ \E resp \in Answers(HealthBenefitResponses), today \in Dates :
       run' = AfterHealthBenefitPage(run, resp, today)
  /\ UNCHANGED <<headers, network_requester, response, classified, peer, arg, ret, parser>>

RecvDiagnosticLabPage ==
  /\ At("get_coverage_data", "diagnostic_lab_page")
  /\ \E resp \in Answers(CategoryResponses("Covered-panel-2")) :
       run' = AfterDiagnosticLabPage(run, resp)
  /\ UNCHANGED <<headers, network_requester, response, classified, peer, arg, ret, parser>>

RecvDiagnosticMedicalPage ==
  /\ At("get_coverage_data", "diagnostic_medical_page")
  /\ \E resp \in Answers(CategoryResponses("Covered-panel-3")) :
       run' = AfterDiagnosticMedicalPage(run, resp)
  /\ UNCHANGED <<headers, network_requester, response, classified, peer, arg, ret, parser>>

RecvMedicalCarePage ==
  /\ At("get_coverage_data", "medical_care_page")
  /\ \E resp \in Answers(MedicalCareResponses) : run' = AfterMedicalCarePage(run, headers, resp)
  /\ UNCHANGED <<headers, network_requester, response, classified, peer, arg, ret, parser>>

RecvCacheJwt ==
  /\ At("get_coverage_data", "cache_jwt")
  /\ \E resp \in Answers(JwtResponses) : run' = AfterCacheJwt(run, headers, resp)
  /\ UNCHANGED <<headers, network_requester, response, classified, peer, arg, ret, parser>>

RecvPreServiceCodes ==
  /\ At("get_coverage_data", "pre_service_codes")
  /\ \E resp \in Answers(CodesResponses) : run' = AfterPreServiceCodes(run, headers, resp)
  /\ UNCHANGED <<headers, network_requester, response, classified, peer, arg, ret, parser>>

RecvOwnJwt ==
  /\ At("get_coverage_data", "own_jwt")
  /\ \E resp \in Answers(JwtResponses) : run' = AfterOwnJwt(run, headers, resp)
  /\ UNCHANGED <<headers, network_requester, response, classified, peer, arg, ret, parser>>

RecvOwnCodes ==
  /\ At("get_coverage_data", "own_codes")
  /\ \E resp \in Answers(CodesResponses) : run' = AfterOwnCodes(run, headers, resp)
  /\ UNCHANGED <<headers, network_requester, response, classified, peer, arg, ret, parser>>

RecvPreServicePage ==
  /\ At("get_coverage_data", "pre_service_page")
  /\ \E resp \in Answers(PreServicePageResponses) : run' = AfterPreServicePage(run, resp)
  /\ UNCHANGED <<headers, network_requester, response, classified, peer, arg, ret, parser>>

RecvCodeResponse ==
  /\ At("get_coverage_data", "code_response")
  /\ \E resp \in Answers(CodeResponses) : run' = AfterCodeResponse(run, headers, resp)
  /\ UNCHANGED <<headers, network_requester, response, classified, peer, arg, ret, parser>>

\* A call of get_preservice_codes, up to its first await.
CallGetPreserviceCodes ==
  /\ Idle
  /\ run' = StartPreserviceCodes(headers)
  /\ UNCHANGED <<headers, network_requester, response, classified, peer, arg, ret, parser>>

CodesRecvEligibilityPage ==
  /\ At("get_preservice_codes", "eligibility_page")
  /\ \E resp \in Answers(EligibilityResponses) : run' = CodesAfterEligibilityPage(run, headers, resp)
  /\ UNCHANGED <<headers, network_requester, response, classified, peer, arg, ret, parser>>

CodesRecvCacheJwt ==
  /\ At("get_preservice_codes", "cache_jwt")
  /\ \E resp \in Answers(JwtResponses) : run' = CodesAfterCacheJwt(run, headers, resp)
  /\ UNCHANGED <<headers, network_requester, response, classified, peer, arg, ret, parser>>

CodesRecvPreServiceCodes ==
  /\ At("get_preservice_codes", "pre_service_codes")
  /\ \E resp \in Answers(CodesResponses) : run' = CodesAfterPreServiceCodes(run, resp)
  /\ UNCHANGED <<headers, network_requester, response, classified, peer, arg, ret, parser>>

Next ==
  \/ Initialize
  \/ CallGetCoverageData
  \/ RecvEligibilityPage
  \/ RecvHealthBenefitPage
  \/ RecvDiagnosticLabPage
  \/ RecvDiagnosticMedicalPage
  \/ RecvMedicalCarePage
  \/ RecvCacheJwt
  \/ RecvPreServiceCodes
  \/ RecvOwnJwt
  \/ RecvOwnCodes
  \/ RecvPreServicePage
  \/ RecvCodeResponse
  \/ CallGetPreserviceCodes
  \/ CodesRecvEligibilityPage
  \/ CodesRecvCacheJwt
  \/ CodesRecvPreServiceCodes

Spec == Init /\ [][Next]_vars

----------------------------------------------------------------------------
(* The Response Classifier on its own: a response, then its classification *)

Statuses == {200, 400, 401, 404, 500}
Reason(status) ==
  CASE status = 200 -> "OK"
    [] status = 400 -> "Bad Request"
    [] status = 401 -> "Unauthorized"
    [] status = 404 -> "Not Found"
    [] OTHER -> "Internal Server Error"
CellTexts == {"", "Invalid contract", " Invalid DOB "}
CellSeqs == UNION {[1..n -> CellTexts] : n \in 0..MaxCells}
Alerts ==
  { [marker |-> FALSE, div |-> FALSE, cells |-> <<>>],
    [marker |-> TRUE, div |-> FALSE, cells |-> <<>>] } \cup
  { [marker |-> TRUE, div |-> TRUE, cells |-> c] : c \in CellSeqs }
ClassifierBodies ==
  { [BlankPage EXCEPT !.ctype = c, !.json = j, !.login = l, !.alertMarker = a.marker,
                      !.alertDiv = a.div, !.alertCells = a.cells] :
      c \in {"text/html", "application/json"}, j \in {NoJson, JDict("payload")},
      l \in BOOLEAN, a \in Alerts }
ClassifierResponses ==
  { Resp(st, Reason(st), b) : st \in Statuses, b \in ClassifierBodies }

InitClassifier ==
  /\ headers = NoHeaders
  /\ network_requester = None
  /\ run = IdleRun
  /\ response \in ClassifierResponses
  /\ classified = NotClassified
  /\ peer = IdleRun
  /\ arg = NoArg
  /\ ret = NoResult
  /\ parser = NoParser

\* _handle_response, lines 31-80.
Classify ==
  /\ classified = NotClassified
  /\ classified' = HandleResponse(response)
  /\ UNCHANGED <<headers, network_requester, run, response, peer, arg, ret, parser>>

SpecClassifier == InitClassifier /\ [][Classify]_vars

Classified == classified # NotClassified
\* The body is an HTML page: it does not decode as JSON.
HtmlBody == response.body.json = NoJson
IsAuthError(e) == e.type = "IntegrationAuthError"
IsValidationError(e) == e.type = "IntegrationAPIError" /\ e.status = 400
IsServerError(e) == e.type = "IntegrationAPIError" /\ e.status \notin {200, 400, 401}
NonEmptyCells(cells) == {i \in 1..Len(cells) : Strip(cells[i]) # ""}

----------------------------------------------------------------------------
(* Claims about the Response Classifier *)

\* C3: a 200 response whose HTML body is titled as the login page raises
\* AuthError whatever else the body holds, non-empty alert cells included;
\* a 401 response always raises AuthError.
C3_LoginPageIsAuthError ==
  Classified =>
    /\ (response.status = 200 /\ HtmlBody /\ response.body.login)
         => (~classified.ok /\ IsAuthError(classified.err))
    /\ response.status = 401 => (~classified.ok /\ IsAuthError(classified.err))

C3_Witness ==
  /\ Classified /\ response.status = 200 /\ HtmlBody /\ response.body.login
  /\ response.body.alertDiv /\ NonEmptyCells(response.body.alertCells) # {}
  /\ ~classified.ok /\ IsAuthError(classified.err)

\* C4: with N non-empty cells in the alert region of a 200 HTML
\* response (the login page, which C3 settles, left aside), N > 0 raises a
\* validation APIError of exactly N lines and N = 0 returns the HTML body.
C4_Original ==
  (Classified /\ response.status = 200 /\ HtmlBody /\ ~response.body.login
     /\ response.body.alertDiv) =>
    LET N == Cardinality(NonEmptyCells(response.body.alertCells)) IN
    IF N > 0
    THEN ~classified.ok /\ IsValidationError(classified.err) /\ Len(classified.err.msg) = N
    ELSE classified = Ok(TextData(response.body))

\* C5 as claimed: a response whose status is none of 200, 400, 401 fails with
\* a server APIError carrying that status, whatever its body.
C5_OtherStatusIsServerError ==
  (Classified /\ response.status \notin {200, 400, 401}) =>
    /\ ~classified.ok
    /\ IsServerError(classified.err)
    /\ classified.err.status = response.status

----------------------------------------------------------------------------
(* Reading a run's log *)

IsCoverageRun == run.op = "get_coverage_data"
IsCodesRun == run.op = "get_preservice_codes"
Returned == run.pc = "done" /\ run.outcome.kind = "return"
Raised == run.pc = "done" /\ run.outcome.kind = "raise"
Initialized == headers # NoHeaders

IsRequest(e) == e.ev = "req"
Reqs == SelectSeq(run.log, IsRequest)

\* Which request of the workflow a request is, by its method, URL and body.
ReqKind(q) ==
  CASE q.method = "GET" /\ q.url = EligibilityPath -> "eligibility"
    [] q.method = "POST" /\ "contractNr" \in DOMAIN q.data -> "lookup"
    [] q.method = "POST" /\ "serviceType" \in DOMAIN q.data -> "switch"
    [] q.method = "POST" /\ "p_p_resource_id" \in DOMAIN q.data -> "token"
    [] q.method = "GET" /\ q.url = CodesPath -> "catalog"
    [] q.method = "GET" /\ q.url = UtilizationPath -> "precert_page"
    [] q.method = "POST" /\ "cptCode" \in DOMAIN q.data -> "search"
    [] OTHER -> "other"
PreServiceKinds == {"token", "catalog", "precert_page", "search"}
Positions(kind) == {k \in 1..Len(Reqs) : ReqKind(Reqs[k]) = kind}
Count(kind) == Cardinality(Positions(kind))

\* The response to the k-th request of the run, once it has come.
Answered(k) == 2 * k <= Len(run.log)
ResponseTo(k) == run.log[2 * k].hr

CoverageOrder == <<"eligibility", "lookup", "switch", "switch", "switch">>
ServiceTypes == <<"5", "73", "1">>
Categories ==
  {"health_benefit", "professional_office", "diagnostic_lab", "diagnostic_medical",
   "medical_care", "iv_therapy"}
Min(a, b) == IF a < b THEN a ELSE b
NumCodes == IF run.preservice_codes = JNull THEN 0 ELSE Len(run.preservice_codes.v)

----------------------------------------------------------------------------
(* Claims about get_coverage_data *)

\* C1: the requests of a run go out one at a time, each after the response to
\* the one before it was received and classified, in the order eligibility
\* GET, lookup POST to the URL scraped from the eligibility page, then the
\* switches with serviceType 5, 73, 1 to the one URL scraped from the lookup
\* response; pre-service requests come only after the third switch.
C1_RequestOrder ==
  IsCoverageRun =>
    /\ \A k \in 1..Len(run.log) :
         /\ run.log[k].ev = IF k % 2 = 1 THEN "req" ELSE "resp"
         /\ (k % 2 = 1 /\ k > 1) => run.log[k - 1].ok
    /\ \A k \in 1..Min(5, Len(Reqs)) : ReqKind(Reqs[k]) = CoverageOrder[k]
    /\ Len(Reqs) >= 2 =>
         Reqs[2].url = Scraped(ResponseTo(1).val.v.attr["form#selectorForm"])
    /\ \A k \in 3..Min(5, Len(Reqs)) :
         /\ Reqs[k].url = Scraped(ResponseTo(2).val.v.attr["form#ebHeaderForm"])
         /\ Reqs[k].data["serviceType"] = ServiceTypes[k - 2]
    /\ \A k \in 1..Len(Reqs) : (ReqKind(Reqs[k]) \in PreServiceKinds) <=> k > 5

C1_Witness ==
  IsCoverageRun /\ Returned /\ Count("switch") = 3 /\ Count("search") >= 1

C6_MissingStructureIsServerError ==
  (IsCoverageRun /\ Raised /\ run.log # <<>> /\ run.log[Len(run.log)].ok
     /\ ScanFormErrors(run.log[Len(run.log)].hr.val).ok)
    => IsServerError(run.outcome.err)

\* C7 as claimed: with the two panels of the benefits page holding one fully
\* populated row each and no codes requested, the result has exactly two
\* top-level categories of one section each, and an empty pre-service list.
C7_Original ==
  (IsCoverageRun /\ Returned /\ run.preservice_codes = JNull
     /\ ResponseTo(2).val.v.panels["Covered-panel-1"] = Panel(<<FullRow>>)
     /\ ResponseTo(2).val.v.panels["Covered-panel-14"] = Panel(<<FullRow>>)) =>
    /\ Cardinality(DOMAIN run.outcome.val.coverage) = 2
    /\ \A c \in DOMAIN run.outcome.val.coverage :
         Cardinality(DOMAIN run.outcome.val.coverage[c]) = 1
    /\ run.outcome.val.preservice = <<>>

\* The fields of FullRow under its section, subsection and sub-group.
FullRowParsed ==
  "Deductible" :> ("In Network" :> ("Individual" :>
    << ("program" :> "PPO") @@ ("amount" :> "$500") @@ ("frequency" :> "Calendar Year") @@
       ("precertification" :> "Y") @@ ("benefit_begin" :> "Y Benefit Begin 01/01/2025") @@
       ("notes" :> <<"Applies to all services">>) >>))

\* The medical care page came back with nothing for the classifier or the form
\* error scanner to object to, and holds its two panels.
MedicalCarePageGood ==
  /\ Answered(5) /\ ResponseTo(5).ok /\ ScanFormErrors(ResponseTo(5).val).ok
  /\ ResponseTo(5).val.v.panels["Covered-panel-9"].present
  /\ ResponseTo(5).val.v.panels["Covered-panel-12"].present

\* C7 amended: with the two panels of the benefits page holding one fully
\* populated row each, every category page holding its own panels and no codes
\* requested, the run returns a result of exactly six top-level categories; the
\* two of the benefits page have exactly one section each, holding the row's
\* fields, and the pre-service list is empty.
C7_SixCategories ==
  (IsCoverageRun /\ run.pc = "done" /\ run.preservice_codes = JNull
     /\ MedicalCarePageGood
     /\ ResponseTo(2).val.v.panels["Covered-panel-1"] = Panel(<<FullRow>>)
     /\ ResponseTo(2).val.v.panels["Covered-panel-14"] = Panel(<<FullRow>>)) =>
    /\ Returned
    /\ DOMAIN run.outcome.val.coverage = Categories
    /\ run.outcome.val.coverage["health_benefit"] = FullRowParsed
    /\ run.outcome.val.coverage["professional_office"] = FullRowParsed
    /\ DOMAIN run.outcome.val = {"coverage", "preservice"}
    /\ run.outcome.val.preservice = <<>>

C7_Witness ==
  /\ IsCoverageRun /\ Returned /\ run.preservice_codes = JNull
  /\ ResponseTo(1).val.v.attr = GoodEligAttr
  /\ ResponseTo(2).val.v.panels["Covered-panel-1"] = Panel(<<FullRow>>)
  /\ ResponseTo(2).val.v.panels["Covered-panel-14"] = Panel(<<FullRow>>)
  /\ Cardinality(DOMAIN run.outcome.val.coverage) = 6

----------------------------------------------------------------------------
(* Claims about the pre-service stage *)

LastLog == run.log[Len(run.log)]
\* The request the last response of the log answers.
LastAnswered == run.log[Len(run.log) - 1]
InPreServiceLookup == run.pc \in {"pre_service_page", "code_response"}
TokenReturned == Answered(6) /\ ResponseTo(6).ok
CatalogReturned == Answered(7) /\ ResponseTo(7).ok

\* C8 as claimed: a run with N >= 1 codes issues exactly one token request and
\* exactly one catalog request, in that order, both before the first search.
C8_Original ==
  (IsCoverageRun /\ Returned /\ NumCodes >= 1) =>
    /\ Count("token") = 1 /\ Count("catalog") = 1
    /\ \A t \in Positions("token"), c \in Positions("catalog") : t < c
    /\ \A c \in Positions("catalog"), p \in Positions("precert_page") \cup Positions("search") :
         c < p

\* C8 amended: the token and the catalog request are the 6th and 7th request of
\* the run, the catalog request carrying the returned token, and all per-code
\* requests come later; when the token returned is not None it is the only token
\* request and every code lookup uses that token, and likewise for the catalog;
\* when the token (the catalog) returned is None, every code lookup issues a
\* token (a catalog) request of its own.
C8_TokenAndCatalogOnce ==
  IsCoverageRun =>
    /\ \A k \in Positions("token") \cup Positions("catalog") : k >= 6
    /\ Len(Reqs) >= 6 => (run.preservice_codes # JNull /\ ReqKind(Reqs[6]) = "token")
    /\ Len(Reqs) >= 7 =>
         /\ ReqKind(Reqs[7]) = "catalog"
         /\ Reqs[7].headers["Authorization"] = <<"Bearer", FmtData(ResponseTo(6).val)>>
    /\ \A p \in Positions("precert_page") \cup Positions("search") : p > 7
    /\ (Returned /\ run.preservice_codes # JNull) => Len(Reqs) >= 7
    /\ (TokenReturned /\ ResponseTo(6).val # JNull) =>
         /\ Count("token") = 1
         /\ InPreServiceLookup => run.jwt_token = ResponseTo(6).val
    /\ (CatalogReturned /\ ResponseTo(7).val # JNull) =>
         /\ Count("catalog") = 1
         /\ InPreServiceLookup => run.codes_list = ResponseTo(7).val
    /\ (Returned /\ TokenReturned /\ ResponseTo(6).val = JNull) =>
         Count("token") = 1 + NumCodes
    /\ (Returned /\ CatalogReturned /\ ResponseTo(7).val = JNull) =>
         Count("catalog") = 1 + NumCodes

C8_Witness ==
  /\ IsCoverageRun /\ Returned /\ NumCodes = 2
  /\ Count("token") = 1 /\ Count("catalog") = 1 /\ Count("search") = 2

InCatalog(code) == \E k \in 1..Len(Catalog) : Catalog[k].code = Upper(code)
FoundCodes == {j \in 1..NumCodes : InCatalog(run.preservice_codes.v[j])}
LastCatalog == ResponseTo(CHOOSE c \in Positions("catalog") : \A d \in Positions("catalog") : d <= c)

----------------------------------------------------------------------------
(* Claims about get_preservice_codes *)

CodesOrder == <<"eligibility", "token", "catalog">>

\* C10 as claimed: exactly two requests, the token POST then the catalog GET.
C10_Original ==
  (IsCodesRun /\ Returned) =>
    /\ Len(Reqs) = 2
    /\ ReqKind(Reqs[1]) = "token" /\ ReqKind(Reqs[2]) = "catalog"

\* C10 amended: exactly three requests, one at a time: the eligibility page
\* GET, the token POST, then the catalog GET carrying the returned token as
\* bearer credential; the catalog returned is the result.
C10_ThreeRequests ==
  IsCodesRun =>
    /\ \A k \in 1..Len(run.log) : run.log[k].ev = IF k % 2 = 1 THEN "req" ELSE "resp"
    /\ Len(Reqs) <= 3
    /\ \A k \in 1..Len(Reqs) : ReqKind(Reqs[k]) = CodesOrder[k]
    /\ Len(Reqs) = 3 =>
         Reqs[3].headers["Authorization"] = <<"Bearer", FmtData(ResponseTo(2).val)>>
    /\ Returned => (Len(Reqs) = 3 /\ run.outcome.val = ResponseTo(3).val)

C10_Witness ==
  IsCodesRun /\ Returned /\ Len(Reqs) = 3 /\ run.outcome.val = JList(Catalog)

----------------------------------------------------------------------------
(* Two runs in progress at once on one instance *)

\* The coroutine r resumes with the response to its outstanding request and runs
\* to its next await, its return or its raise.
Resume(r, hdrs, resp, today) ==
  CASE r.op = "get_coverage_data" /\ r.pc = "eligibility_page" -> AfterEligibilityPage(r, hdrs, resp)
    [] r.op = "get_coverage_data" /\ r.pc = "health_benefit_page" -> AfterHealthBenefitPage(r, resp, today)
    [] r.op = "get_coverage_data" /\ r.pc = "diagnostic_lab_page" -> AfterDiagnosticLabPage(r, resp)
    [] r.op = "get_coverage_data" /\ r.pc = "diagnostic_medical_page" -> AfterDiagnosticMedicalPage(r, resp)
    [] r.op = "get_coverage_data" /\ r.pc = "medical_care_page" -> AfterMedicalCarePage(r, hdrs, resp)
    [] r.op = "get_coverage_data" /\ r.pc = "cache_jwt" -> AfterCacheJwt(r, hdrs, resp)
    [] r.op = "get_coverage_data" /\ r.pc = "pre_service_codes" -> AfterPreServiceCodes(r, hdrs, resp)
    [] r.op = "get_coverage_data" /\ r.pc = "own_jwt" -> AfterOwnJwt(r, hdrs, resp)
    [] r.op = "get_coverage_data" /\ r.pc = "own_codes" -> AfterOwnCodes(r, hdrs, resp)
    [] r.op = "get_coverage_data" /\ r.pc = "pre_service_page" -> AfterPreServicePage(r, resp)
    [] r.op = "get_coverage_data" /\ r.pc = "code_response" -> AfterCodeResponse(r, hdrs, resp)
    [] r.op = "get_preservice_codes" /\ r.pc = "eligibility_page" -> CodesAfterEligibilityPage(r, hdrs, resp)
    [] r.op = "get_preservice_codes" /\ r.pc = "cache_jwt" -> CodesAfterCacheJwt(r, hdrs, resp)
    [] r.op = "get_preservice_codes" /\ r.pc = "pre_service_codes" -> CodesAfterPreServiceCodes(r, resp)

\* self.headers with every request built on the run's own dict.
SessionHeadersAliased(hdrs, r) ==
  IF r.log # <<>> /\ r.log[Len(r.log)].ev = "req" THEN r.log[Len(r.log)].headers ELSE hdrs

\* self.headers after the coroutine r has run to its next await: every request
\* is built on self.headers.copy() (lines 93, 151, 262, 270, 294), so what the
\* run adds goes to the copy.
SessionHeaders(hdrs, r) == hdrs

\* What the portal sends a run, marked by the run it answers (tag).
Tagged(tag, text) == text \o tag
PortalAttr(tag) ==
  [s \in Selectors |->
     IF s \in HiddenInputSet THEN Tagged(tag, s)
     ELSE IF s = "form#selectorForm" THEN Tagged(tag, "/portal/eligibility/lookup")
     ELSE IF s = "form#ebHeaderForm" THEN Tagged(tag, "/portal/eligibility/benefits")
     ELSE Tagged(tag, "/portal/precert/search")]
PortalPanels ==
  [p \in Panels |-> Panel(<<FullRow>>)]
PortalPage(tag) ==
  [BlankPage EXCEPT !.attr = PortalAttr(tag), !.marker = TRUE, !.panels = PortalPanels,
                    !.script = "msg"]
PortalAnswers(tag, r) ==
  { Resp(401, "Unauthorized", BlankPage),
    CASE r.pc \in {"cache_jwt", "own_jwt"} -> Ok200(JsonBody(JStr(Tagged(tag, "jwt"))))
      [] r.pc \in {"pre_service_codes", "own_codes"} -> Ok200(JsonBody(JList(Catalog)))
      [] OTHER -> Ok200(PortalPage(tag)) }

RunPatient == CHOOSE p \in Patients : TRUE
PeerPatient ==
  [contract_id |-> "XCD456", first_name |-> "Bo", last_name |-> "Roy", mid_init |-> None,
   dob |-> "03/04/1975"]
Calls(patient) ==
  { [op |-> "get_coverage_data", patient |-> patient, preservice_codes |-> codes] :
      codes \in {JNull, JList(<<"a1">>)} } \cup
  { [op |-> "get_preservice_codes", patient |-> NoPatient, preservice_codes |-> JNull] }
Start(call, hdrs) ==
  IF call.op = "get_coverage_data"
  THEN StartCoverageData(hdrs, call.patient, call.preservice_codes)
  ELSE StartPreserviceCodes(hdrs)
Suspended(r) == r.pc \notin {"idle", "done"}

\* initialize, before either call.
InitializeShared ==
  /\ run.pc = "idle" /\ peer.pc = "idle"
  /\ \E session \in Sessions :
       /\ headers' = HeaderTemplate(session.token)
       /\ network_requester' = session.network_requester
  /\ UNCHANGED <<run, peer, response, classified, arg, ret, parser>>

CallRun ==
  /\ headers # NoHeaders /\ run.pc = "idle"
  /\ \E call \in Calls(RunPatient) : run' = Start(call, headers)
  /\ headers' = SessionHeaders(headers, run')
  /\ UNCHANGED <<network_requester, peer, response, classified, arg, ret, parser>>

CallPeer ==
  /\ headers # NoHeaders /\ peer.pc = "idle"
  /\ \E call \in Calls(PeerPatient) : peer' = Start(call, headers)
  /\ headers' = SessionHeaders(headers, peer')
  /\ UNCHANGED <<network_requester, run, response, classified, arg, ret, parser>>

ResumeRun ==
  /\ Suspended(run)
  /\ \E resp \in PortalAnswers("-run", run), today \in Dates :
       run' = Resume(run, headers, resp, today)
  /\ headers' = SessionHeaders(headers, run')
  /\ UNCHANGED <<network_requester, peer, response, classified, arg, ret, parser>>

ResumePeer ==
  /\ Suspended(peer)
  /\ \E resp \in PortalAnswers("-peer", peer), today \in Dates :
       peer' = Resume(peer, headers, resp, today)
  /\ headers' = SessionHeaders(headers, peer')
  /\ UNCHANGED <<network_requester, run, response, classified, arg, ret, parser>>

NextConcurrent == InitializeShared \/ CallRun \/ CallPeer \/ ResumeRun \/ ResumePeer

SpecConcurrent == Init /\ [][NextConcurrent]_vars

----------------------------------------------------------------------------
(* Claims about concurrent runs *)

RequestsOf(r) == SelectSeq(r.log, IsRequest)
HeaderAdditions == {"Accept", "Content-Type", "X-Requested-With", "Authorization"}

\* Every request of r is built from the session's template, r's own arguments and
\* the pages and token the portal sent r (those marked tag).
OwnRequests(r, patient, tag) ==
  \A k \in 1..Len(RequestsOf(r)) :
    LET q == RequestsOf(r)[k] IN
    /\ \A h \in DOMAIN headers : h \in DOMAIN q.headers /\ q.headers[h] = headers[h]
    /\ (DOMAIN q.headers) \ (DOMAIN headers) \subseteq HeaderAdditions
    /\ ReqKind(q) = "lookup" =>
         /\ q.url = Scraped(Tagged(tag, "/portal/eligibility/lookup"))
         /\ q.data = EligData(PortalPage(tag), patient)
    /\ ReqKind(q) = "switch" => q.url = Scraped(Tagged(tag, "/portal/eligibility/benefits"))
    /\ ReqKind(q) = "catalog" =>
         q.headers["Authorization"] = <<"Bearer", Tagged(tag, "jwt")>>
    /\ ReqKind(q) = "search" =>
         /\ q.url = Scraped(Tagged(tag, "/portal/precert/search"))
         /\ q.data["cptCode"] = Upper(r.preservice_codes.v[r.i])

\* C11: with two runs in progress at once on one initialized instance, the
\* header template is in every state what initialize stored, and every request
\* of a run carries the template's entries plus the run's own additions, the
\* run's own patient data and the fields, URLs and token scraped from the run's
\* own responses, never the other run's.
C11_SharedTemplate ==
  /\ Initialized => \E session \in Sessions : headers = HeaderTemplate(session.token)
  /\ (run.pc # "idle" \/ peer.pc # "idle") => Initialized
  /\ OwnRequests(run, RunPatient, "-run")
  /\ OwnRequests(peer, PeerPatient, "-peer")

C11_Witness ==
  /\ run.op = "get_coverage_data" /\ run.pc = "code_response"
  /\ peer.op = "get_coverage_data" /\ peer.pc = "health_benefit_page"
  /\ Len(RequestsOf(run)) = 9 /\ Len(RequestsOf(peer)) = 2

----------------------------------------------------------------------------
(* The Form Error Scanner on its own: a page, then the scan *)

MaxPanels == 2     \* panel-error elements in a page
MaxInputs == 2     \* input.error elements in a page

PanelTexts == {"", " ", "Member not found"}
\* An input.error element: id, title, value and name as Tag.get gives them.
ErrorInput(id, title) == [id |-> id, title |-> title, value |-> "13/45/2020", name |-> "dob"]
ErrorInputs ==
  { ErrorInput(id, title) : id \in {None, "dob", "general_error_0"},
                            title \in {None, "", "Invalid date"} }
ScannerPages ==
  { [BlankPage EXCEPT !.errPanels = panels, !.errInputs = inputs] :
      panels \in UNION {[1..n -> PanelTexts] : n \in 0..MaxPanels},
      inputs \in UNION {[1..n -> ErrorInputs] : n \in 0..MaxInputs} }

InitScanner ==
  /\ headers = NoHeaders
  /\ network_requester = None
  /\ run = IdleRun
  /\ response = NoResponse
  /\ classified = NotClassified
  /\ peer = IdleRun
  /\ arg \in {TextData(page) : page \in ScannerPages}
  /\ ret = NoResult
  /\ parser = NoParser

\* _scan_form_errors, lines 543-600.
Scan ==
  /\ ret = NoResult
  /\ ret' = ScanFormErrors(arg)
  /\ UNCHANGED <<headers, network_requester, run, response, classified, peer, arg, parser>>

SpecScanner == InitScanner /\ [][Scan]_vars

Scanned == ret # NoResult
NonEmptyPanels == {i \in 1..Len(arg.v.errPanels) : Strip(arg.v.errPanels[i]) # ""}
\* The error inputs with a non-empty title.
TitledInputs ==
  {i \in 1..Len(arg.v.errInputs) : arg.v.errInputs[i].title \notin {None, ""}}
EmptyTitledInputs == {i \in 1..Len(arg.v.errInputs) : arg.v.errInputs[i].title = ""}

----------------------------------------------------------------------------
(* Claims about the Form Error Scanner *)

FormSubmissions == {"lookup", "switch", "search"}

\* C12: after every form submission (the lookup form, each category switch,
\* each precertification search form) the Form Error Scanner is run on the
\* returned page before anything is extracted from it: a returned page with
\* form errors ends the run with the scanner's validation error.
C12_ScannerAfterEverySubmission ==
  IsCoverageRun =>
    \A k \in 1..Len(Reqs) :
      (/\ ReqKind(Reqs[k]) \in FormSubmissions
       /\ Answered(k) /\ ResponseTo(k).ok
       /\ ~ScanFormErrors(ResponseTo(k).val).ok) =>
        (Raised /\ run.outcome.err = ScanFormErrors(ResponseTo(k).val).err)

\* C13: the scanner raises a validation APIError with status 400 exactly when
\* the page has a panel-error element with non-empty trimmed text or an error
\* input with a non-empty title; otherwise it returns normally.
C13_RaisesIffErrors ==
  Scanned =>
    IF NonEmptyPanels # {} \/ TitledInputs # {}
    THEN ~ret.ok /\ IsValidationError(ret.err)
    ELSE ret.ok

\* C14: when the scanner raises, the mapping it carries has one entry per error
\* panel with non-empty text and one per qualifying error input (on pages where
\* every titled input has a non-empty title), also when inputs share an id, have
\* no id, or have a general-error key as id.
C14_AllErrorsCarried ==
  (Scanned /\ ~ret.ok /\ EmptyTitledInputs = {}) =>
    Cardinality(DOMAIN ret.err.detail) =
      Cardinality(NonEmptyPanels) + Cardinality(TitledInputs)

----------------------------------------------------------------------------
(* The Benefit Table Parser on its own: a panel, then its rows one at a time *)

MaxRows == 3       \* div.eb-row rows in a panel

TableRow(sec, sub, cov, qty) ==
  [sec |-> sec, sub |-> sub, cov |-> cov, qty |-> qty, freq |-> "",
   precert |-> [first |-> None, text |-> ""], notes |-> <<>>]
\* Rows with and without each label, with and without data.
TableRows ==
  { TableRow("Deductible", " In Network ", <<"Individual", "PPO">>, <<"$500">>),
    TableRow("Deductible", None, <<>>, <<"$500">>),
    TableRow("Deductible", None, <<>>, <<>>),
    TableRow("Copay", "Out of Network", <<>>, <<"$500">>),
    TableRow("Copay", None, <<"Family">>, <<"$500">>),
    TableRow(None, " In Network ", <<>>, <<>>),
    TableRow(None, "Out of Network", <<"Family">>, <<"$500">>),
    TableRow(None, None, <<>>, <<"$500">>),
    TableRow(None, None, <<"", "PPO">>, <<"20%">>),
    TableRow(None, None, <<"Individual">>, <<>>),
    TableRow(" ", " ", <<" ">>, <<" ">>) }
ParserInputs ==
  {NoPanel} \cup {Panel(rows) : rows \in UNION {[1..n -> TableRows] : n \in 0..MaxRows}}

InitParser ==
  /\ headers = NoHeaders
  /\ network_requester = None
  /\ run = IdleRun
  /\ response = NoResponse
  /\ classified = NotClassified
  /\ peer = IdleRun
  /\ arg \in ParserInputs
  /\ ret = NoResult
  /\ parser = NoParser

\* Lines 341-348: the rows are found and the locals set; None.find_all raises.
ParseCall ==
  /\ ret = NoResult /\ parser.i = 0
  /\ IF ~arg.present
     THEN ret' = Raise(PyError("AttributeError")) /\ parser' = parser
     ELSE ret' = ret /\ parser' = [i |-> 1, st |-> ParserInit]
  /\ UNCHANGED <<headers, network_requester, run, response, classified, peer, arg>>

\* Lines 351-467: one iteration of the loop.
ParseNextRow ==
  /\ ret = NoResult /\ parser.i \in 1..Len(arg.rows)
  /\ parser' = [i |-> parser.i + 1, st |-> ParseRow(parser.st, arg.rows[parser.i])]
  /\ UNCHANGED <<headers, network_requester, run, response, classified, peer, arg, ret>>

\* Line 469.
ParseReturn ==
  /\ ret = NoResult /\ arg.present /\ parser.i = Len(arg.rows) + 1
  /\ ret' = Ok(parser.st.result)
  /\ UNCHANGED <<headers, network_requester, run, response, classified, peer, arg, parser>>

NextParser == ParseCall \/ ParseNextRow \/ ParseReturn

SpecParser == InitParser /\ [][NextParser]_vars

----------------------------------------------------------------------------
(* Claims about the Benefit Table Parser *)

\* The rows read from the panel, and how many of them the loop has been through.
Rows == arg.rows
RowsDone == IF parser.i = 0 THEN 0 ELSE parser.i - 1
Parsed == ret # NoResult /\ ret.ok

\* What the labels of the rows say, read off the rows themselves.
Labeled(text) == text # None /\ Strip(text) # ""
LastIn(S) == IF S = {} THEN 0 ELSE CHOOSE j \in S : \A k \in S : k <= j
\* The row of the latest section label among the first n rows (0: none), the
\* row of the latest subsection label since then, and the row of the latest
\* coverage-level label since then.
LastSec(n) == LastIn({j \in 1..n : Labeled(Rows[j].sec)})
LastSub(n) ==
  IF LastSec(n) = 0 THEN 0 ELSE LastIn({j \in LastSec(n)..n : Labeled(Rows[j].sub)})
CovLabel(row) ==
  IF Len(row.cov) > 0 /\ Strip(row.cov[1]) # "" THEN Strip(row.cov[1]) ELSE None
CovProgram(row) ==
  IF Len(row.cov) > 1 /\ Strip(row.cov[2]) # "" THEN Strip(row.cov[2]) ELSE None
LastCov(n) ==
  IF LastSub(n) = 0 THEN 0 ELSE LastIn({j \in LastSub(n)..n : CovLabel(Rows[j]) # None})
SubGroup(n) == IF LastCov(n) = 0 THEN None ELSE CovLabel(Rows[LastCov(n)])
\* The latest subsection label in document order, whatever section it was under.
LastSubEver(n) ==
  IF LastSec(n) = 0 THEN 0
  ELSE LastIn({j \in 1..n : Labeled(Rows[j].sub) /\ LastSec(j) > 0})
HasData(k) == RowData(Rows[k]) # EmptyDict

RecordedUnder(res, S, X, d) ==
  /\ S \in DOMAIN res /\ X \in DOMAIN res[S]
  /\ \E K \in DOMAIN res[S][X] : \E n \in 1..Len(res[S][X][K]) : res[S][X][K][n] = d
RecordedUnderSection(res, S, d) ==
  S \in DOMAIN res /\ \E X \in DOMAIN res[S] : RecordedUnder(res, S, X, d)

\* C15: a row with a blank section column that follows a labeled row is recorded
\* under the most recent non-empty section label and, its subsection column
\* being blank too, under the most recent non-empty subsection label seen in
\* document order; rows before the first labeled section contribute nothing.
C15_InheritsSectionAndSubsection ==
  Parsed =>
    /\ \A k \in 1..Len(Rows) :
         (~Labeled(Rows[k].sec) /\ LastSec(k) > 0 /\ HasData(k)) =>
           LET S == Strip(Rows[LastSec(k)].sec)
               d == RowData(Rows[k])
           IN /\ RecordedUnderSection(ret.val, S, d)
              /\ (~Labeled(Rows[k].sub) /\ LastSubEver(k) > 0) =>
                   RecordedUnder(ret.val, S, Strip(Rows[LastSubEver(k)].sub), d)
    /\ LastSec(Len(Rows)) = 0 => ret.val = EmptyDict

\* C16: a row with a current section, no current subsection and at least one
\* non-empty field has its fields on the section-level mapping of the result.
C16_SectionOnlyRowFolded ==
  Parsed =>
    \A k \in 1..Len(Rows) :
      (LastSec(k) > 0 /\ LastSub(k) = 0 /\ HasData(k)) =>
        \A f \in DOMAIN RowData(Rows[k]) : f \in DOMAIN ret.val[Strip(Rows[LastSec(k)].sec)]

\* C17: the mapping returned holds no empty container: no section without a
\* subsection, no subsection without a sub-group, no sub-group without an entry.
C17_NoEmptyContainer ==
  Parsed =>
    \A S \in DOMAIN ret.val :
      /\ ret.val[S] # EmptyDict
      /\ \A X \in DOMAIN ret.val[S] :
           /\ ret.val[S][X] # EmptyDict
           /\ \A K \in DOMAIN ret.val[S][X] : ret.val[S][X][K] # <<>>

\* Where a row with data and a current subsection is stored.
Stored(k) == HasData(k) /\ LastSub(k) > 0
Place(k) ==
  << Strip(Rows[LastSec(k)].sec), Strip(Rows[LastSub(k)].sub),
     IF SubGroup(k) # None THEN SubGroup(k)
     ELSE IF CovProgram(Rows[k]) # None THEN CovProgram(Rows[k]) ELSE "Other" >>

\* C18: after every row the current sub-group is the coverage-level label of
\* the latest row that had one since the section and the subsection were last
\* set, none if there is no such row; every row with data is stored under its
\* own section and subsection and under that sub-group, or, when there is none,
\* under its program text or "Other", and nothing else is stored.
C18_SubGroupScope ==
  (arg # NoArg /\ arg.present /\ parser.i >= 1) =>
    LET res == parser.st.result IN
    /\ parser.st.current_subsection2 = SubGroup(RowsDone)
    /\ \A k \in 1..RowsDone :
         Stored(k) =>
           /\ Place(k)[1] \in DOMAIN res
           /\ Place(k)[2] \in DOMAIN res[Place(k)[1]]
           /\ Place(k)[3] \in DOMAIN res[Place(k)[1]][Place(k)[2]]
    /\ \A S \in DOMAIN res : \A X \in DOMAIN res[S] : \A K \in DOMAIN res[S][X] :
         Len(res[S][X][K]) =
           Cardinality({k \in 1..RowsDone : Stored(k) /\ Place(k) = <<S, X, K>>})

C18_Witness ==
  /\ Parsed /\ Len(Rows) = 3
  /\ Rows[1] = TableRow("Deductible", " In Network ", <<"Individual", "PPO">>, <<"$500">>)
  /\ Rows[2] = TableRow(None, None, <<>>, <<"$500">>)
  /\ Rows[3] = TableRow("Copay", "Out of Network", <<>>, <<"$500">>)
  /\ Len(ret.val["Deductible"]["In Network"]["Individual"]) = 2
  /\ DOMAIN ret.val["Copay"]["Out of Network"] = {"Other"}

\* C19: the parser never raises: whatever is missing from the rows, and also
\* when the panel itself is missing, it returns a mapping.
C19_ParserNeverRaises ==
  ret # NoResult => ret.ok

----------------------------------------------------------------------------
(* Claims about request headers *)

CarriesTemplate(q) ==
  \A h \in DOMAIN headers : h \in DOMAIN q.headers /\ q.headers[h] = headers[h]
ContentTypeIs(q, type) ==
  "Content-Type" \in DOMAIN q.headers /\ q.headers["Content-Type"] = type
CarriesBearer(q) ==
  "Authorization" \in DOMAIN q.headers /\ q.headers["Authorization"][1] = "Bearer"

\* C20: every request of a run carries all entries of the session's header
\* template, the Cookie included; every form submission (the lookup form, the
\* category switches, each precertification search form) also carries
\* Content-Type application/x-www-form-urlencoded; the token request and the
\* catalog request carry Content-Type application/json and a Bearer
\* Authorization header.
C20_RequestHeaders ==
  \A k \in 1..Len(Reqs) :
    LET q == Reqs[k] IN
    /\ CarriesTemplate(q)
    /\ ReqKind(q) \in FormSubmissions => ContentTypeIs(q, FormUrlEncoded)
    /\ ReqKind(q) \in {"token", "catalog"} =>
         ContentTypeIs(q, "application/json") /\ CarriesBearer(q)

----------------------------------------------------------------------------
(* Claims about scraped values *)

\* What a page gives for the hidden fields and the form a step scrapes from it.
ScrapeYieldsNothing(page, selectors) ==
  \E sel \in selectors : page.attr[sel] \in {Absent, None}

\* C21: no request is issued with a missing URL or a missing hidden-field
\* value: when a hidden field or a form's action URL scraped from a page is
\* missing (no such element, or the element lacks the attribute), the run
\* fails there and the POST that depends on it is not sent.
C21_NoRequestWithMissingScrape ==
  /\ \A k \in 1..Len(Reqs) : ~Malformed(Reqs[k])
  /\ \A k \in 1..Len(Reqs) :
       (/\ ReqKind(Reqs[k]) = "eligibility" /\ IsCoverageRun
        /\ Answered(k) /\ ResponseTo(k).ok
        /\ ScrapeYieldsNothing(ResponseTo(k).val.v, HiddenInputSet \cup {"form#selectorForm"})) =>
         (Raised /\ Len(Reqs) = k)

----------------------------------------------------------------------------
(* Claims about the pre-service lookup's result *)

\* The pre-service list as far as the run has built it, or as it returned it.
PreServiceList ==
  IF Returned THEN run.outcome.val.preservice ELSE run.preservice_data_list
IsResultMapping(e) == e.t = "dict"
\* The result mappings among its entries: one for every search answered.
SearchResults == SelectSeq(PreServiceList, IsResultMapping)
SearchesUpTo(k) == Cardinality({m \in Positions("search") : m <= k})
HasPayload(page) == page.errorDiv # Absent \/ ExtractScriptJson(page.script) # JNull

\* C22: for every requested code found in the catalog the lookup completes
\* with a result whose outpatient field is the explicit unavailability message
\* when the search response has one and otherwise the message embedded in its
\* script; when the response has neither, the lookup still completes: it does
\* not raise.
C22_AbsentPayloadIsNormal ==
  IsCoverageRun =>
    \A k \in Positions("search") :
      (Answered(k) /\ ResponseTo(k).ok) =>
        LET page == ResponseTo(k).val.v IN
        /\ ~(Raised /\ Len(Reqs) = k)
        /\ (~Raised /\ HasPayload(page)) =>
             SearchResults[SearchesUpTo(k)].v.outpatient_data =
               IF page.errorDiv # Absent THEN Strip(page.errorDiv)
               ELSE ExtractScriptJson(page.script).v

\* The catalog entries whose code equals a requested code ignoring letter case.
EqualIgnoringCase(a, b) == Upper(a) = Upper(b)
CatalogMatches(code) == {i \in 1..Len(Catalog) : EqualIgnoringCase(Catalog[i].code, code)}

\* C23: the catalog lookup is case-insensitive: a requested code matches a
\* catalog entry exactly when the two codes are equal ignoring letter case,
\* whichever of them is in lower or upper case, and the first such entry
\* supplies the description of the result.
C23_CaseInsensitiveLookup ==
  IsCoverageRun =>
    \A j \in 1..Len(PreServiceList) :
      LET code == run.preservice_codes.v[j] IN
      IF CatalogMatches(code) = {} THEN PreServiceList[j].t = "str"
      ELSE /\ PreServiceList[j].t = "dict"
           /\ PreServiceList[j].v.description =
                Catalog[CHOOSE i \in CatalogMatches(code) :
                          \A m \in CatalogMatches(code) : i <= m].description

\* The searches in request order, and the number of result mappings among the
\* first i entries of the pre-service list.
SearchPositions(j) ==
  CHOOSE k \in Positions("search") : SearchesUpTo(k) = j
ResultsUpTo(i) == Cardinality({m \in 1..i : PreServiceList[m].t = "dict"})

\* C24: when get_coverage_data returns for a list of N requested codes, the
\* pre-service list has exactly N entries and entry i is the outcome for the
\* i-th requested code, in request order: the not-found string for that code,
\* or the result mapping built from that code's own search; when no code list
\* is given the pre-service list is empty and no token, catalog or
\* precertification request was issued.
C24_OneEntryPerCode ==
  (IsCoverageRun /\ Returned) =>
    IF run.preservice_codes = JNull
    THEN /\ PreServiceList = <<>>
         /\ \A kind \in PreServiceKinds : Count(kind) = 0
    ELSE /\ Len(PreServiceList) = NumCodes
         /\ Count("search") = ResultsUpTo(NumCodes)
         /\ \A i \in 1..NumCodes :
              LET code == Upper(run.preservice_codes.v[i])
                  entry == PreServiceList[i]
              IN IF entry.t = "str" THEN entry.v = <<code, "not found in codes list">>
                 ELSE
                    /\ entry.t = "dict" /\ entry.v.code = code
                    /\ LET k == SearchPositions(ResultsUpTo(i))
                           page == ResponseTo(k).val.v
                       IN /\ Reqs[k].data["cptCode"] = code
                          /\ entry.v.outpatient_data =
                               IF page.errorDiv # Absent THEN Strip(page.errorDiv)
                               ELSE ExtractScriptJson(page.script).v

C24_Witness ==
  /\ IsCoverageRun /\ Returned /\ run.preservice_codes = JList(<<"a1", "a1">>)
  /\ PreServiceList[1].v.outpatient_data = "Not available online"
  /\ PreServiceList[2].v.outpatient_data = "Outpatient precertification required"

====
